---- MODULE Spec2Model ----
(***************************************************************************)
(* Model of the Hugging Face ingestion demo:                               *)
(*   src/core_samples/fetch_models.py  (ModelFetcher and its three methods)*)
(*   src/schemas/db_models.py          (HFModel and PipelineLog schemas)   *)
(*                                                                         *)
(* A session starts idle and invokes one entry point: run_etl_pipeline,    *)
(* fetch_category_specific, or the schema layer.  run_etl_pipeline is      *)
(* modelled statement by statement: one step per fetch call, one per       *)
(* iteration of a for loop, one for the final return.                      *)
(***************************************************************************)
EXTENDS Integers, Sequences, FiniteSets, TLC

(* ----------------------------- bounds ---------------------------------- *)
\* Total number of list elements the remote API sends over one session.
MaxRecords == 3

(* -------------------------- Python values ------------------------------ *)
\* Every Python/JSON value is a tagged pair, so that values of different
\* Python types can live in the same collection.
PyNone == [t |-> "None", v |-> 0]
PyStr(s) == [t |-> "str", v |-> s]
PyInt(n) == [t |-> "int", v |-> n]
PyDict(f) == [t |-> "dict", v |-> f]
PyList(s) == [t |-> "list", v |-> s]
EmptyList == PyList(<<>>)

\* Sentinel for "no argument given / no value yet" (not a Python value).
Missing == [t |-> "missing", v |-> 0]

\* Names of the exceptions the model distinguishes; NoExc = normal completion.
NoExc == "none"

\* dict.get(key): the value under key, None when the key is absent.
DictGet(d, key) ==
    IF key \in DOMAIN d.v THEN d.v[key] ELSE PyNone

\* hash(k) succeeds for str, int and None; lists and dicts are unhashable.
Hashable(k) == k.t \notin {"list", "dict"}

(* --------------------- ordered mapping (dict) -------------------------- *)
\* A Python dict is modelled as the sequence of its entries in insertion
\* order; each entry is [k |-> key, m |-> value].
KeyIndex(d, key) ==
    IF \E i \in 1..Len(d) : d[i].k = key
    THEN CHOOSE i \in 1..Len(d) : d[i].k = key
    ELSE 0

\* Variant: the entries are accumulated as in a list, with no look-up.
DictSetItem_Append(d, key, value) ==
    Append(d, [k |-> key, m |-> value])

\* Variant: setdefault, an existing entry is left as it is.
DictSetItem_KeepFirst(d, key, value) ==
    IF KeyIndex(d, key) # 0
    THEN d
    ELSE Append(d, [k |-> key, m |-> value])

\* Variant: a record whose key is None is skipped.
DictSetItem_DropNone(d, key, value) ==
    IF key = PyNone THEN d
    ELSE IF KeyIndex(d, key) # 0
    THEN [d EXCEPT ![KeyIndex(d, key)] = [k |-> key, m |-> value]]
    ELSE Append(d, [k |-> key, m |-> value])

\* Variant: an overwritten entry moves to the end (delete, then insert).
DictSetItem_MoveToEnd(d, key, value) ==
    Append(SelectSeq(d, LAMBDA e : e.k # key), [k |-> key, m |-> value])

\* d[key] = value : replaces the value in place when the key exists,
\* appends a new entry otherwise.
DictSetItem(d, key, value) ==
    IF KeyIndex(d, key) # 0
    THEN [d EXCEPT ![KeyIndex(d, key)] = [k |-> key, m |-> value]]
    ELSE Append(d, [k |-> key, m |-> value])

\* list(d.values())
DictValues(d) == [i \in 1..Len(d) |-> d[i].m]

(* ------------------------- remote responses ---------------------------- *)
\* Elements the remote may put in a listing.
E_a1 == PyDict([id |-> PyStr("a"), downloads |-> PyInt(10)])
E_a2 == PyDict([id |-> PyStr("a"), downloads |-> PyInt(0), likes |-> PyInt(99)])
E_b == PyDict([id |-> PyStr("b")])
E_noid == PyDict([downloads |-> PyInt(5)])
E_null == PyDict([id |-> PyNone, likes |-> PyInt(1)])
E_badid == PyDict([id |-> EmptyList])
E_str == PyStr("abc")
Elements == {E_a1, E_a2, E_b, E_noid, E_null, E_badid, E_str}

\* A decoded body that is not a list, e.g. {"error": "..."}.
ErrorObject == PyDict([error |-> PyStr("rate limited")])

ListBodies(n) == UNION {[1..k -> Elements] : k \in 0..n}

\* What one GET can come to: requests.get raises Timeout or ConnectionError,
\* raise_for_status raises HTTPError, json() raises JSONDecodeError, or the
\* body decodes to a list of at most n elements or to an error object.
FailureKinds == {"Timeout", "ConnectionError", "HTTPError", "JSONDecodeError"}
Responses(n) ==
    [kind : FailureKinds, body : {PyNone}]
    \cup [kind : {"ok"}, body : {ErrorObject} \cup {PyList(s) : s \in ListBodies(n)}]

\* True when the call delivered a listing.
Delivered(resp) == resp.kind = "ok" /\ resp.body.t = "list"

(* ----------------------- exception classes ----------------------------- *)
\* requests.exceptions.Timeout and its subclasses.
TimeoutClasses == {"Timeout"}
\* Everything derived from Exception.
ExceptionClasses ==
    {"Timeout", "ConnectionError", "HTTPError", "JSONDecodeError",
     "AttributeError", "TypeError", "ValidationError"}

\* The try body: requests.get, raise_for_status, response.json().
TryGet(resp) ==
    IF resp.kind = "ok"
    THEN [exc |-> NoExc, data |-> resp.body]
    ELSE [exc |-> resp.kind, data |-> PyNone]

Return(value) == [raised |-> NoExc, value |-> value]
Raise(exc) == [raised |-> exc, value |-> PyNone]

(* --------------------------- ModelFetcher ------------------------------ *)
\* self.timeout as set by __init__ (default argument).
DefaultTimeout == 45
\* The literal timeout of fetch_category_specific.
CategoryTimeout == 25
\* Default limit of fetch_category_specific.
CategoryDefaultLimit == 200

GlobalRequest(limit, sort_by) ==
    [params |-> [limit |-> limit, sort |-> sort_by, direction |-> -1, full |-> TRUE],
     timeout |-> DefaultTimeout]

CategoryRequest(pipeline_tag, library, limit) ==
    [params |-> [pipeline_tag |-> pipeline_tag, library |-> library,
                 limit |-> limit, sort |-> "downloads"],
     timeout |-> CategoryTimeout]

\* Variant: the decoded body is returned without the isinstance test.
fetch_global_NoShapeCheck(resp) ==
    LET r == TryGet(resp) IN
    IF r.exc = NoExc
    THEN Return(r.data)
    ELSE IF r.exc \in TimeoutClasses THEN Return(EmptyList)
    ELSE IF r.exc \in ExceptionClasses THEN Return(EmptyList)
    ELSE Raise(r.exc)

\* Variant: the Timeout handler logs and re-raises.
fetch_global_ReraiseTimeout(resp) ==
    LET r == TryGet(resp) IN
    IF r.exc = NoExc
    THEN IF r.data.t = "list" THEN Return(r.data) ELSE Return(EmptyList)
    ELSE IF r.exc \in TimeoutClasses THEN Raise(r.exc)
    ELSE IF r.exc \in ExceptionClasses THEN Return(EmptyList)
    ELSE Raise(r.exc)

\* fetch_global_top_models: the outcome of the call for a given response.
fetch_global_top_models(resp) ==
    LET r == TryGet(resp) IN
    IF r.exc = NoExc
    THEN IF r.data.t = "list" THEN Return(r.data) ELSE Return(EmptyList)
    ELSE IF r.exc \in TimeoutClasses THEN Return(EmptyList)
    ELSE IF r.exc \in ExceptionClasses THEN Return(EmptyList)
    ELSE Raise(r.exc)

\* fetch_category_specific: the outcome of the call for a given response.
fetch_category_specific(resp) ==
    LET r == TryGet(resp) IN
    IF r.exc = NoExc
    THEN Return(r.data)
    ELSE IF r.exc \in ExceptionClasses THEN Return(EmptyList)
    ELSE Raise(r.exc)

\* The items a for loop draws from a value: the elements of a list, the
\* keys of a dict.
RECURSIVE KeysAsSeq(_)
KeysAsSeq(S) ==
    IF S = {} THEN <<>>
    ELSE LET x == CHOOSE y \in S : TRUE IN <<PyStr(x)>> \o KeysAsSeq(S \ {x})
IterItems(value) ==
    IF value.t = "list" THEN value.v ELSE KeysAsSeq(DOMAIN value.v)

\* The four phases of run_etl_pipeline, in program order.
NumPhases == 4
PhaseRequest(i) ==
    CASE i = 1 -> GlobalRequest(1000, "downloads")
      [] i = 2 -> GlobalRequest(1000, "likes")
      [] i = 3 -> GlobalRequest(1000, "likes7d")
      [] i = 4 -> GlobalRequest(100, "createdAt")

(* ------------------------------ state ---------------------------------- *)
VARIABLES
    op,             \* entry point the session invoked, "none" while idle
    pc,             \* "idle", "fetch", "loop", "done", "raised"
    phase,          \* phase of run_etl_pipeline being executed (0 = none)
    unique_models,  \* the dict of run_etl_pipeline
    iter,           \* items the current for loop has still to visit
    requests,       \* GET requests issued so far, in order
    last_resp,      \* what the most recent GET came to
    ret,            \* outcome of the most recent fetch call
    calls,          \* per completed fetch of the pipeline: ok, sent, returned
    result,         \* value the entry point returned (Missing before)
    exception,      \* exception that left the entry point, NoExc if none
    hf_model,       \* the HFModel instance of the schema session
    pipeline_log    \* the PipelineLog instance of the schema session

vars == <<op, pc, phase, unique_models, iter, requests, last_resp, ret, calls,
          result, exception, hf_model, pipeline_log>>

fetchVars == <<phase, unique_models, iter, requests, last_resp, ret, calls>>
schemaVars == <<hf_model, pipeline_log>>

NoObject == [state |-> "none"]

Init ==
    /\ op = "none"
    /\ pc = "idle"
    /\ phase = 0
    /\ unique_models = <<>>
    /\ iter = <<>>
    /\ requests = <<>>
    /\ last_resp = Missing
    /\ ret = Missing
    /\ calls = <<>>
    /\ result = Missing
    /\ exception = NoExc
    /\ hf_model = NoObject
    /\ pipeline_log = NoObject

\* Number of list elements the remote has sent so far.
RECURSIVE SentCount(_)
SentCount(cs) ==
    IF cs = <<>> THEN 0 ELSE Len(Head(cs).sent) + SentCount(Tail(cs))

(* ------------------------- run_etl_pipeline ---------------------------- *)
\* Entry: unique_models = {}
CallRunEtlPipeline ==
    /\ op = "none"
    /\ op' = "run_etl_pipeline"
    /\ pc' = "fetch"
    /\ phase' = 1
    /\ unique_models' = <<>>
    /\ UNCHANGED <<iter, requests, last_resp, ret, calls, result, exception>>
    /\ UNCHANGED schemaVars

\* The call self.fetch_global_top_models(...) that heads the for loop of
\* phase i.
PhaseFetch(i) ==
    /\ op = "run_etl_pipeline"
    /\ pc = "fetch"
    /\ phase = i
    /\ \E resp \in Responses(MaxRecords - SentCount(calls)) :
        LET r == fetch_global_top_models(resp) IN
        /\ requests' = Append(requests, PhaseRequest(i))
        /\ last_resp' = resp
        /\ ret' = r
        /\ calls' = Append(calls,
                [ok |-> Delivered(resp),
                 sent |-> IF Delivered(resp) THEN resp.body.v ELSE <<>>,
                 returned |-> r.value])
        /\ IF r.raised # NoExc
           THEN /\ pc' = "raised"
                /\ exception' = r.raised
                /\ iter' = <<>>
           ELSE /\ pc' = "loop"
                /\ exception' = exception
                /\ iter' = IterItems(r.value)
    /\ UNCHANGED <<op, phase, unique_models, result>>
    /\ UNCHANGED schemaVars

Phase1Fetch == PhaseFetch(1)
Phase2Fetch == PhaseFetch(2)
Phase3Fetch == PhaseFetch(3)
Phase4Fetch == PhaseFetch(4)

\* One iteration of the loop body: unique_models[model.get("id")] = model
LoopBody ==
    /\ op = "run_etl_pipeline"
    /\ pc = "loop"
    /\ iter # <<>>
    /\ LET model == Head(iter) IN
       IF model.t # "dict"
       THEN /\ pc' = "raised"
            /\ exception' = "AttributeError"
            /\ UNCHANGED <<unique_models, iter>>
       ELSE IF ~Hashable(DictGet(model, "id"))
       THEN /\ pc' = "raised"
            /\ exception' = "TypeError"
            /\ UNCHANGED <<unique_models, iter>>
       ELSE /\ unique_models' = DictSetItem(unique_models, DictGet(model, "id"), model)
            /\ iter' = Tail(iter)
            /\ UNCHANGED <<pc, exception>>
    /\ UNCHANGED <<op, phase, requests, last_resp, ret, calls, result>>
    /\ UNCHANGED schemaVars

\* The loop of a phase other than the last is exhausted: on to the next.
NextPhase ==
    /\ op = "run_etl_pipeline"
    /\ pc = "loop"
    /\ iter = <<>>
    /\ phase < NumPhases
    /\ phase' = phase + 1
    /\ pc' = "fetch"
    /\ UNCHANGED <<op, unique_models, iter, requests, last_resp, ret, calls,
                   result, exception>>
    /\ UNCHANGED schemaVars

\* return list(unique_models.values())
ReturnEtlPipeline ==
    /\ op = "run_etl_pipeline"
    /\ pc = "loop"
    /\ iter = <<>>
    /\ phase = NumPhases
    /\ result' = PyList(DictValues(unique_models))
    /\ pc' = "done"
    /\ UNCHANGED <<op, phase, unique_models, iter, requests, last_resp, ret,
                   calls, exception>>
    /\ UNCHANGED schemaVars

(* ---------------------- fetch_category_specific ------------------------ *)
PipelineTags == {"text-generation"}
Libraries == {"pytorch"}

CallFetchCategorySpecific ==
    /\ op = "none"
    /\ \E resp \in Responses(MaxRecords), tag \in PipelineTags, lib \in Libraries :
        LET r == fetch_category_specific(resp) IN
        /\ requests' = Append(requests, CategoryRequest(tag, lib, CategoryDefaultLimit))
        /\ last_resp' = resp
        /\ ret' = r
        /\ IF r.raised # NoExc
           THEN /\ pc' = "raised"
                /\ exception' = r.raised
                /\ result' = result
           ELSE /\ pc' = "done"
                /\ exception' = exception
                /\ result' = r.value
    /\ op' = "fetch_category_specific"
    /\ UNCHANGED <<phase, unique_models, iter, calls>>
    /\ UNCHANGED schemaVars

(* ------------------------- schema layer -------------------------------- *)
\* Values a caller may pass for an int field; Missing = argument omitted.
IntInputs == {Missing, PyInt(-1), PyInt(0), PyInt(3), PyStr("abc"), PyNone}
\* Values a caller may assign to an int attribute of an existing instance.
AssignInputs == {PyInt(-1), PyInt(3)}
ModelIdInputs == {Missing, PyStr("org/name")}
RunIdInputs == {Missing, PyStr("uuid-1")}

\* Validation of a field annotated int with a default and no constraint:
\* an omitted argument takes the default, an int passes as it is, anything
\* else fails.
ValidateInt(input, default) ==
    IF input = Missing THEN [ok |-> TRUE, value |-> PyInt(default)]
    ELSE IF input.t = "int" THEN [ok |-> TRUE, value |-> input]
    ELSE [ok |-> FALSE, value |-> PyNone]

\* Validation of a required field (declared with ... or without default).
ValidateRequired(input) ==
    IF input = Missing THEN [ok |-> FALSE, value |-> PyNone]
    ELSE [ok |-> TRUE, value |-> input]

\* HFModel(model_id=..., downloads=..., likes=...)
HFModel(model_id, downloads, likes) ==
    LET i == ValidateRequired(model_id)
        d == ValidateInt(downloads, 0)
        l == ValidateInt(likes, 0)
    IN IF i.ok /\ d.ok /\ l.ok
       THEN [state |-> "valid", model_id |-> i.value,
             downloads |-> d.value, likes |-> l.value]
       ELSE [state |-> "rejected"]

\* PipelineLog(run_id=..., fetched_count=..., ...)
PipelineLog(run_id, fetched, inserted, updated, errors) ==
    LET r == ValidateRequired(run_id)
        f == ValidateInt(fetched, 0)
        i == ValidateInt(inserted, 0)
        u == ValidateInt(updated, 0)
        e == ValidateInt(errors, 0)
    IN IF r.ok /\ f.ok /\ i.ok /\ u.ok /\ e.ok
       THEN [state |-> "valid", run_id |-> r.value,
             fetched_count |-> f.value, inserted_count |-> i.value,
             updated_count |-> u.value, error_count |-> e.value]
       ELSE [state |-> "rejected"]

\* Attribute assignment on an instance: BaseSchema's model_config sets only
\* from_attributes, so the new value is stored as given.
SetAttr(obj, field, value) == [obj EXCEPT ![field] = value]

ConstructHFModel ==
    /\ op = "none"
    /\ \E model_id \in ModelIdInputs, downloads \in IntInputs, likes \in IntInputs :
        LET obj == HFModel(model_id, downloads, likes) IN
        IF obj.state = "valid"
        THEN /\ hf_model' = obj
             /\ pc' = "done"
             /\ exception' = exception
        ELSE /\ hf_model' = hf_model
             /\ pc' = "raised"
             /\ exception' = "ValidationError"
    /\ op' = "schema"
    /\ UNCHANGED <<pipeline_log, result>>
    /\ UNCHANGED fetchVars

ConstructPipelineLog ==
    /\ op = "none"
    /\ \E run_id \in RunIdInputs, f \in IntInputs, i \in IntInputs,
          u \in IntInputs, e \in IntInputs :
        LET obj == PipelineLog(run_id, f, i, u, e) IN
        IF obj.state = "valid"
        THEN /\ pipeline_log' = obj
             /\ pc' = "done"
             /\ exception' = exception
        ELSE /\ pipeline_log' = pipeline_log
             /\ pc' = "raised"
             /\ exception' = "ValidationError"
    /\ op' = "schema"
    /\ UNCHANGED <<hf_model, result>>
    /\ UNCHANGED fetchVars

AssignHFModel ==
    /\ op = "schema"
    /\ hf_model.state = "valid"
    /\ \E field \in {"downloads", "likes"}, value \in AssignInputs :
        hf_model' = SetAttr(hf_model, field, value)
    /\ UNCHANGED <<op, pc, result, exception, pipeline_log>>
    /\ UNCHANGED fetchVars

AssignPipelineLog ==
    /\ op = "schema"
    /\ pipeline_log.state = "valid"
    /\ \E field \in {"fetched_count", "inserted_count", "updated_count", "error_count"},
          value \in AssignInputs :
        pipeline_log' = SetAttr(pipeline_log, field, value)
    /\ UNCHANGED <<op, pc, result, exception, hf_model>>
    /\ UNCHANGED fetchVars

Next ==
    \/ CallRunEtlPipeline
    \/ Phase1Fetch
    \/ Phase2Fetch
    \/ Phase3Fetch
    \/ Phase4Fetch
    \/ LoopBody
    \/ NextPhase
    \/ ReturnEtlPipeline
    \/ CallFetchCategorySpecific
    \/ ConstructHFModel
    \/ ConstructPipelineLog
    \/ AssignHFModel
    \/ AssignPipelineLog

Spec == Init /\ [][Next]_vars

(* ------------------- reference definitions for the properties ---------- *)
\* The identifier of a record: the value of its "id" field, None when the
\* field is absent.
IdOf(m) == IF "id" \in DOMAIN m.v THEN m.v["id"] ELSE PyNone

RECURSIVE ConcatReturned(_)
ConcatReturned(cs) ==
    IF cs = <<>> THEN <<>> ELSE Head(cs).returned.v \o ConcatReturned(Tail(cs))

RECURSIVE ConcatSent(_)
ConcatSent(cs) ==
    IF cs = <<>> THEN <<>> ELSE Head(cs).sent \o ConcatSent(Tail(cs))

IdSet(L) == {IdOf(L[i]) : i \in 1..Len(L)}

\* The last record of L carrying identifier id.
LastWith(L, id) ==
    L[CHOOSE i \in 1..Len(L) :
        /\ IdOf(L[i]) = id
        /\ \A j \in (i+1)..Len(L) : IdOf(L[j]) # id]

\* Positions of L at which an identifier occurs for the first time.
FirstOcc(L) == {i \in 1..Len(L) : \A j \in 1..(i-1) : IdOf(L[j]) # IdOf(L[i])}

\* The k-th smallest element of a set of numbers.
Nth(F, k) == CHOOSE i \in F : Cardinality({j \in F : j < i}) = k - 1

\* Identifiers of L in order of first occurrence.
FirstSeenIds(L) ==
    [k \in 1..Cardinality(FirstOcc(L)) |-> IdOf(L[Nth(FirstOcc(L), k)])]

\* Merge of a record list: one record per identifier, the last one carrying
\* it, placed where the identifier was first seen.
RefMerge(L) ==
    [k \in 1..Cardinality(FirstOcc(L)) |-> LastWith(L, FirstSeenIds(L)[k])]

EtlDone == op = "run_etl_pipeline" /\ pc = "done"
EtlEnded == op = "run_etl_pipeline" /\ pc \in {"done", "raised"}

(* ------------------------------ claims --------------------------------- *)

\* C1: when run_etl_pipeline returns, the identifiers of the returned
\* records are exactly the distinct identifiers occurring in the lists the
\* four phases returned, and no identifier occurs twice in the output.
C1_ExactIdSet ==
    EtlDone =>
        /\ IdSet(result.v) = IdSet(ConcatReturned(calls))
        /\ \A i, j \in 1..Len(result.v) :
                i # j => IdOf(result.v[i]) # IdOf(result.v[j])

\* C1 witness: a run returned in which two phases carried the same
\* identifier and another identifier occurred as well.
C1_Witness ==
    /\ EtlDone
    /\ Len(ConcatReturned(calls)) = 3
    /\ Cardinality(IdSet(ConcatReturned(calls))) = 2
    /\ calls[1].returned.v # <<>> /\ calls[4].returned.v # <<>>

\* C2: last-write-wins: every returned record is, whole, the last record
\* with its identifier in the concatenation of the phase results in phase
\* order; in particular the phase results [a/10], [a/0/99], [], [b] give
\* [a/0/99, b].
C2_LastWriteWins ==
    EtlDone =>
        /\ \A i \in 1..Len(result.v) :
            result.v[i] = LastWith(ConcatReturned(calls), IdOf(result.v[i]))
        /\ ( /\ calls[1].returned.v = <<E_a1>>
             /\ calls[2].returned.v = <<E_a2>>
             /\ calls[3].returned.v = <<>>
             /\ calls[4].returned.v = <<E_b>> )
           => result.v = <<E_a2, E_b>>

\* C2 witness: the scenario of the claim has run to its end.
C2_Witness ==
    /\ EtlDone
    /\ calls[1].returned.v = <<E_a1>>
    /\ calls[2].returned.v = <<E_a2>>
    /\ calls[3].returned.v = <<>>
    /\ calls[4].returned.v = <<E_b>>
    /\ result.v = <<E_a2, E_b>>

\* C3 (as stated): fetch_category_specific never raises, always returns a
\* list, and returns the empty list whenever the call did not deliver a
\* listing (timeout, transport or status error, malformed response).
C3_CategoryAbsorbsFailures ==
    (op = "fetch_category_specific") =>
        /\ pc # "raised"
        /\ result.t = "list"
        /\ ~Delivered(last_resp) => result = EmptyList

\* C4: fetch_global_top_models never raises and always returns a list: the
\* decoded list unchanged when the call delivered one, the empty list for a
\* timeout, a transport error, an error status, an undecodable body and a
\* body that is not a list.
C4_GlobalFetchTotal ==
    (op = "run_etl_pipeline" /\ ret # Missing) =>
        /\ ret.raised = NoExc
        /\ ret.value.t = "list"
        /\ Delivered(last_resp) => ret.value = last_resp.body
        /\ ~Delivered(last_resp) => ret.value = EmptyList

\* C4 witness: a call whose body decoded to an error object returned the
\* empty list.
C4_Witness ==
    /\ op = "run_etl_pipeline"
    /\ last_resp # Missing
    /\ last_resp.kind = "ok"
    /\ last_resp.body = ErrorObject
    /\ ret = Return(EmptyList)

\* C5 (as stated): no exception leaves run_etl_pipeline, whatever the four
\* calls come to, lists of arbitrary elements included.
C5_PipelineNeverRaises ==
    ~(op = "run_etl_pipeline" /\ pc = "raised")

\* C6: no short-circuit: a call that fails never ends the pipeline, a
\* returned run has made all four calls, each failed call contributed the
\* empty list, and the result is the merge of what the successful calls
\* delivered, in phase order; when all four fail the result is empty.
C6_NoShortCircuit ==
    /\ (op = "run_etl_pipeline" /\ pc = "raised") => Delivered(last_resp)
    /\ EtlDone =>
        /\ Len(calls) = NumPhases
        /\ \A i \in 1..Len(calls) : ~calls[i].ok => calls[i].returned = EmptyList
        /\ result.v = RefMerge(ConcatSent(calls))
        /\ (\A i \in 1..Len(calls) : ~calls[i].ok) => result = EmptyList

\* C6 witness: a run returned in which phase 2 failed while phases 1 and 3
\* each delivered a record that is part of the result.
C6_Witness ==
    /\ EtlDone
    /\ ~calls[2].ok
    /\ calls[1].ok /\ calls[1].sent = <<E_a1>>
    /\ calls[3].ok /\ calls[3].sent = <<E_b>>
    /\ result.v = <<E_a1, E_b>>

\* C7 (as stated): every execution of run_etl_pipeline, however it ends,
\* has issued exactly the four GETs (1000, downloads), (1000, likes),
\* (1000, likes7d), (100, createdAt), descending and with full metadata,
\* in this order.
C7_ExactlyFourRequests ==
    EtlEnded =>
        /\ Len(requests) = 4
        /\ requests[1].params = [limit |-> 1000, sort |-> "downloads", direction |-> -1, full |-> TRUE]
        /\ requests[2].params = [limit |-> 1000, sort |-> "likes", direction |-> -1, full |-> TRUE]
        /\ requests[3].params = [limit |-> 1000, sort |-> "likes7d", direction |-> -1, full |-> TRUE]
        /\ requests[4].params = [limit |-> 100, sort |-> "createdAt", direction |-> -1, full |-> TRUE]

\* C8: a record without identifier (field missing or null) is kept under
\* the single absent key: a returned run holds at most one such record, it
\* is the last one processed, and every identifier that was fetched still
\* has its record.
C8_AbsentIdKey ==
    EtlDone =>
        LET L == ConcatReturned(calls) IN
        /\ Cardinality({i \in 1..Len(result.v) : IdOf(result.v[i]) = PyNone}) <= 1
        /\ (PyNone \in IdSet(L)) =>
                \E i \in 1..Len(result.v) : result.v[i] = LastWith(L, PyNone)
        /\ \A j \in 1..Len(L) :
                IdOf(L[j]) # PyNone =>
                    \E i \in 1..Len(result.v) : IdOf(result.v[i]) = IdOf(L[j])

\* C8 witness: a run returned after fetching a record with no id field, a
\* record with a null id and a record with an identifier; the result holds
\* the later identifier-less record and the identified one.
C8_Witness ==
    /\ EtlDone
    /\ ConcatReturned(calls) = <<E_noid, E_b, E_null>>
    /\ result.v = <<E_null, E_b>>

\* C9: the returned records are in insertion order of the keys: their
\* identifiers appear in the order in which they were first met across the
\* phases, an overwrite leaving the position unchanged.
C9_InsertionOrder ==
    EtlDone =>
        [i \in 1..Len(result.v) |-> IdOf(result.v[i])]
            = FirstSeenIds(ConcatReturned(calls))

\* C9 witness: identifier a was met first, then b, then a again in a later
\* phase; a's record was replaced and is still first.
C9_Witness ==
    /\ EtlDone
    /\ ConcatReturned(calls) = <<E_a1, E_b, E_a2>>
    /\ calls[1].returned.v = <<E_a1, E_b>>
    /\ result.v = <<E_a2, E_b>>

\* C10 (as stated): an HFModel the schema layer holds has downloads >= 0
\* and likes >= 0, and a PipelineLog has its four counters >= 0.
C10_CountsNonNegative ==
    /\ hf_model.state = "valid" =>
        /\ hf_model.downloads.v >= 0
        /\ hf_model.likes.v >= 0
    /\ pipeline_log.state = "valid" =>
        /\ pipeline_log.fetched_count.v >= 0
        /\ pipeline_log.inserted_count.v >= 0
        /\ pipeline_log.updated_count.v >= 0
        /\ pipeline_log.error_count.v >= 0
====
